---- MODULE Spec2Model ----
(***************************************************************************)
(* Model of edmonds_karp_algorithm.py: class Graph (constructor, add_edge,  *)
(* bfs, edmonds_karp) and class Edge (constructor, remaining_capacity).     *)
(*                                                                          *)
(* Python lists are modelled as sequences; a Python index i of a list of    *)
(* length n is valid when -n <= i < n and denotes position i+1 (i >= 0) or  *)
(* n+i+1 (i < 0).  Edge objects live in the sequence "edges"; a reference   *)
(* to an Edge is its position in that sequence, None is 0.                  *)
(***************************************************************************)
EXTENDS Integers, Sequences, FiniteSets, TLC

\* ---- bounds of the explored inputs ----
MaxNodes == 2
MaxEdges == 1
MaxCap == 2
MaxLiveEdges == 1
MaxArgNodes == 2
MaxArgEdges == 1
MaxArgCap == 1
MaxParallel == 2
MaxParallelCap == 3

VARIABLES
  pc,            \* position of the caller / of the running edmonds_karp()
  num_nodes,     \* Graph.num_nodes
  source,        \* Graph.source (0-based)
  sink,          \* Graph.sink (0-based)
  graph,         \* Graph.graph: list of adjacency lists of Edge references
  edges,         \* the Edge objects: capacity, from_node, to_node, flow, residual
  bfs_queue,     \* bfs local
  visited,       \* bfs local
  previous,      \* bfs local: Edge reference or None (0) per node
  network_flow,  \* bfs local: math.inf or an integer
  edge,          \* bfs local: cursor of the two backward walks
  max_flow,      \* edmonds_karp local
  flow,          \* edmonds_karp local
  raised,        \* the exception the last operation raised, "" if none
  results,       \* the value the first completed edmonds_karp() returned, then
                 \* the value the latest one returned
  bfs_calls,     \* number of bfs() calls made by the current edmonds_karp()
  flows0,        \* flow of every edge when the current edmonds_karp() began
  path_lens,     \* edges on the predecessor chain of each bfs() of the current
                 \* edmonds_karp() that found a path, in call order
  flows_bfs,     \* flow of every edge when the latest bfs() began
  fresh,         \* TRUE once the network has been replaced by a fresh copy
  resolve        \* TRUE when the current edmonds_karp() began on a solved network

vars == <<pc, num_nodes, source, sink, graph, edges, bfs_queue, visited,
          previous, network_flow, edge, max_flow, flow, raised, results,
          bfs_calls, flows0, path_lens, flows_bfs, fresh, resolve>>

graphVars == <<num_nodes, source, sink, graph>>
bfsVars == <<bfs_queue, visited, previous, network_flow, edge>>

None == 0

\* ---- Python list indexing ----
InRange(len, i) == -len <= i /\ i < len
Pos(len, i) == IF i >= 0 THEN i + 1 ELSE len + i + 1

\* [x] * n : the empty list when n <= 0
Repeat(x, n) == [i \in 1..n |-> x]
ListLen(n) == IF n > 0 THEN n ELSE 0

\* math.inf and min(network_flow, x)
Inf == [inf |-> TRUE, v |-> 0]
Fin(x) == [inf |-> FALSE, v |-> x]
\* mutation: the walk keeps the largest remaining capacity
PyMinLargest(nf, x) == IF nf.inf \/ x > nf.v THEN Fin(x) ELSE nf
\* mutation: every augmentation pushes a single unit
PyMinUnit(nf, x) == IF x >= 1 THEN Fin(1) ELSE Fin(x)
PyMin(nf, x) == IF nf.inf \/ x < nf.v THEN Fin(x) ELSE nf

\* ---- class Edge ----
\* Edge.__init__: residual starts as the placeholder 0
NewEdge(capacity, from_node, to_node) ==
  [capacity |-> capacity, from_node |-> from_node - 1, to_node |-> to_node - 1,
   flow |-> 0, residual |-> 0]

\* mutation: remaining capacity off by one
remaining_capacity_plus_one(e) == e.capacity - e.flow + 1

\* Edge.remaining_capacity
remaining_capacity(e) == e.capacity - e.flow

\* ---- class Graph ----
\* Graph.__init__
GraphInit(n, s, t) ==
  /\ pc = "start"
  /\ num_nodes' = n
  /\ source' = s - 1
  /\ sink' = t - 1
  /\ graph' = Repeat(<<>>, n)
  /\ pc' = "built"
  /\ raised' = ""
  /\ UNCHANGED <<edges, bfsVars, max_flow, flow, results, bfs_calls, flows0, path_lens, flows_bfs, fresh, resolve>>

\* mutation: one slot per pair of nodes, so an edge between a pair that already
\* has one takes that edge's place in the adjacency list instead of joining it
Store(es, list, id, to) ==
  LET same == {k \in 1..Len(list) : es[list[k]].to_node = to}
  IN IF same = {} THEN Append(list, id)
     ELSE [list EXCEPT ![CHOOSE k \in same : TRUE] = id]

AddEdgeMerging(from_node, to_node, capacity) ==
  LET d == Len(edges) + 1
      r == Len(edges) + 2
      directed_edge == [NewEdge(capacity, from_node, to_node) EXCEPT !.residual = r]
      residual_edge == [NewEdge(0, to_node, from_node) EXCEPT !.residual = d]
      n == Len(graph)
  IN
  /\ pc = "built"
  /\ InRange(n, from_node - 1)
  /\ InRange(n, to_node - 1)
  /\ raised' = ""
  /\ edges' = Append(Append(edges, directed_edge), residual_edge)
  /\ graph' = [[graph EXCEPT ![Pos(n, from_node - 1)] = Store(edges', @, d, to_node - 1)]
                 EXCEPT ![Pos(n, to_node - 1)] = Store(edges', @, r, from_node - 1)]
  /\ UNCHANGED <<pc, num_nodes, source, sink, bfsVars, max_flow, flow, results,
                 bfs_calls, flows0, path_lens, flows_bfs, fresh, resolve>>

\* Graph.add_edge: the two Edge objects are created and linked, then appended
\* one after the other; either list lookup can raise IndexError.
AddEdge(from_node, to_node, capacity) ==
  LET d == Len(edges) + 1
      r == Len(edges) + 2
      directed_edge == [NewEdge(capacity, from_node, to_node) EXCEPT !.residual = r]
      residual_edge == [NewEdge(0, to_node, from_node) EXCEPT !.residual = d]
      n == Len(graph)
      pf == Pos(n, from_node - 1)
      pt == Pos(n, to_node - 1)
      g1 == [graph EXCEPT ![pf] = Append(@, d)]
  IN
  /\ pc = "built"
  /\ IF ~InRange(n, from_node - 1)
       THEN /\ raised' = "IndexError"
            /\ UNCHANGED <<graph, edges>>
       ELSE IF ~InRange(n, to_node - 1)
         THEN /\ raised' = "IndexError"
              /\ graph' = g1
              /\ edges' = Append(Append(edges, directed_edge), residual_edge)
         ELSE /\ raised' = ""
              /\ graph' = [g1 EXCEPT ![pt] = Append(@, r)]
              /\ edges' = Append(Append(edges, directed_edge), residual_edge)
  /\ UNCHANGED <<pc, num_nodes, source, sink, bfsVars, max_flow, flow, results,
                 bfs_calls, flows0, path_lens, flows_bfs, fresh, resolve>>

\* Graph.edmonds_karp, lines 167-168: entry of a call
EdmondsKarp ==
  /\ pc \in {"built", "done"}
  /\ max_flow' = 0
  /\ flow' = 1
  /\ pc' = "ek_while"
  /\ raised' = ""
  /\ bfs_calls' = 0
  /\ flows0' = [i \in 1..Len(edges) |-> edges[i].flow]
  /\ resolve' = (pc = "done")
  /\ path_lens' = <<>>
  /\ flows_bfs' = <<>>
  /\ UNCHANGED <<graphVars, edges, bfsVars, results, fresh>>

\* Graph.edmonds_karp, line 171 with flow > 0, then Graph.bfs lines 91-99
BfsEnter ==
  /\ pc = "ek_while"
  /\ flow > 0
  /\ bfs_calls' = bfs_calls + 1
  /\ flows_bfs' = [i \in 1..Len(edges) |-> edges[i].flow]
  /\ IF ~InRange(ListLen(num_nodes), source)
       THEN /\ raised' = "IndexError"
            /\ pc' = "failed"
            /\ UNCHANGED <<bfs_queue, visited, previous>>
       ELSE /\ visited' = [Repeat(FALSE, num_nodes) EXCEPT ![Pos(ListLen(num_nodes), source)] = TRUE]
            /\ bfs_queue' = <<source>>
            /\ previous' = Repeat(None, num_nodes)
            /\ pc' = "bfs_while"
            /\ UNCHANGED raised
  /\ UNCHANGED <<graphVars, edges, network_flow, edge, max_flow, flow, results,
                 flows0, path_lens, fresh, resolve>>

\* mutation: a node found is put at the front of the queue, so the search
\* runs depth first
RECURSIVE ScanEdgesLifo(_, _, _)
ScanEdgesLifo(es, k, st) ==
  IF k > Len(es) \/ st.raised # "" THEN st
  ELSE LET e == edges[es[k]]
           n == Len(st.visited)
       IN IF remaining_capacity(e) > 0
            THEN IF ~InRange(n, e.to_node)
                   THEN [st EXCEPT !.raised = "IndexError"]
                   ELSE IF st.visited[Pos(n, e.to_node)] # TRUE
                          THEN ScanEdgesLifo(es, k + 1,
                                 [visited |-> [st.visited EXCEPT ![Pos(n, e.to_node)] = TRUE],
                                  previous |-> [st.previous EXCEPT ![Pos(n, e.to_node)] = es[k]],
                                  bfs_queue |-> <<e.to_node>> \o st.bfs_queue,
                                  raised |-> ""])
                          ELSE ScanEdgesLifo(es, k + 1, st)
            ELSE ScanEdgesLifo(es, k + 1, st)

\* Graph.bfs, lines 111-123: the for loop over the adjacency list es, from its
\* k-th entry on; st holds visited, previous, bfs_queue and the exception raised
RECURSIVE ScanEdges(_, _, _)
ScanEdges(es, k, st) ==
  IF k > Len(es) \/ st.raised # "" THEN st
  ELSE LET e == edges[es[k]]
           n == Len(st.visited)
       IN IF remaining_capacity(e) > 0
            THEN IF ~InRange(n, e.to_node)
                   THEN [st EXCEPT !.raised = "IndexError"]
                   ELSE IF st.visited[Pos(n, e.to_node)] # TRUE
                          THEN ScanEdges(es, k + 1,
                                 [visited |-> [st.visited EXCEPT ![Pos(n, e.to_node)] = TRUE],
                                  previous |-> [st.previous EXCEPT ![Pos(n, e.to_node)] = es[k]],
                                  bfs_queue |-> Append(st.bfs_queue, e.to_node),
                                  raised |-> ""])
                          ELSE ScanEdges(es, k + 1, st)
            ELSE ScanEdges(es, k + 1, st)

\* Graph.bfs, lines 102-123: one iteration of the queue loop, or its exit
BfsWhile ==
  /\ pc = "bfs_while"
  /\ IF Len(bfs_queue) = 0
       THEN /\ pc' = "bfs_check"
            /\ UNCHANGED <<bfs_queue, visited, previous, raised>>
       ELSE LET current_vertex == Head(bfs_queue)
                rest == Tail(bfs_queue)
            IN IF current_vertex = sink
                 THEN /\ bfs_queue' = rest
                      /\ pc' = "bfs_check"
                      /\ UNCHANGED <<visited, previous, raised>>
                 ELSE LET st == ScanEdges(graph[Pos(Len(graph), current_vertex)], 1,
                                   [visited |-> visited, previous |-> previous,
                                    bfs_queue |-> rest, raised |-> ""])
                      IN /\ visited' = st.visited
                         /\ previous' = st.previous
                         /\ bfs_queue' = st.bfs_queue
                         /\ raised' = st.raised
                         /\ pc' = IF st.raised # "" THEN "failed" ELSE "bfs_while"
  /\ UNCHANGED <<graphVars, edges, network_flow, edge, max_flow, flow, results,
                 bfs_calls, flows0, path_lens, flows_bfs, fresh, resolve>>

\* Graph.bfs, lines 132-139: the edges the backward walks meet, from edge e
\* along previous[edge.from_node] until None; at most fuel of them
RECURSIVE Chain(_, _)
Chain(e, fuel) ==
  IF e = None \/ fuel = 0 THEN <<>>
  ELSE <<e>> \o Chain(previous[Pos(ListLen(num_nodes), edges[e].from_node)], fuel - 1)

\* the walk from previous[sink]
SelectedPath == Chain(previous[Pos(ListLen(num_nodes), sink)], Len(edges) + 1)

\* Graph.bfs, lines 127-133: no path (return 0 into lines 173-175 of
\* edmonds_karp), or the start of the bottleneck walk
BfsCheck ==
  /\ pc = "bfs_check"
  /\ IF ~InRange(ListLen(num_nodes), sink)
       THEN /\ raised' = "IndexError"
            /\ pc' = "failed"
            /\ UNCHANGED <<network_flow, edge, flow, max_flow, path_lens>>
       ELSE IF previous[Pos(ListLen(num_nodes), sink)] = None
         THEN /\ flow' = 0
              /\ max_flow' = max_flow + 0
              /\ pc' = "ek_while"
              /\ UNCHANGED <<network_flow, edge, raised, path_lens>>
         ELSE /\ network_flow' = Inf
              /\ edge' = previous[Pos(ListLen(num_nodes), sink)]
              /\ pc' = "bfs_min"
              /\ path_lens' = Append(path_lens, Len(SelectedPath))
              /\ UNCHANGED <<flow, max_flow, raised>>
  /\ UNCHANGED <<graphVars, edges, bfs_queue, visited, previous, results,
                 bfs_calls, flows0, flows_bfs, fresh, resolve>>

\* mutation: the walk does not move back along the path
BacktrackStays(e) == e

\* Graph.bfs, lines 139 and 151: edge = previous[edge.from_node]
Backtrack(e) == previous[Pos(ListLen(num_nodes), edges[e].from_node)]

\* Graph.bfs, lines 136-141: one step of the bottleneck walk, or its exit
BfsMin ==
  /\ pc = "bfs_min"
  /\ IF edge # None
       THEN /\ network_flow' = PyMin(network_flow, remaining_capacity(edges[edge]))
            /\ edge' = Backtrack(edge)
            /\ UNCHANGED pc
       ELSE /\ edge' = previous[Pos(ListLen(num_nodes), sink)]
            /\ pc' = "bfs_update"
            /\ UNCHANGED network_flow
  /\ UNCHANGED <<graphVars, edges, bfs_queue, visited, previous, max_flow, flow,
                 raised, results, bfs_calls, flows0, path_lens, flows_bfs, fresh, resolve>>

\* mutation: the residual edge is not updated
AugmentForwardOnly(es, e, amount) == [es EXCEPT ![e].flow = @ + amount]

\* mutation: the residual edge is updated with the wrong sign
AugmentSameSign(es, e, amount) ==
  LET r == es[e].residual
      es1 == [es EXCEPT ![e].flow = @ + amount]
  IN [es1 EXCEPT ![r].flow = @ + amount]

\* mutation: each path edge is filled to its own capacity, not by the bottleneck
AugmentOwnCapacity(es, e, amount) ==
  LET r == es[e].residual
      own == es[e].capacity - es[e].flow
      es1 == [es EXCEPT ![e].flow = @ + own]
  IN [es1 EXCEPT ![r].flow = @ - own]

\* Graph.bfs, lines 146-149: the paired update of one path edge
Augment(es, e, amount) ==
  LET r == es[e].residual
      es1 == [es EXCEPT ![e].flow = @ + amount]
  IN [es1 EXCEPT ![r].flow = @ - amount]

\* Graph.bfs, lines 144-153: one step of the update walk, or the return of
\* network_flow into lines 173-175 of edmonds_karp
BfsUpdate ==
  /\ pc = "bfs_update"
  /\ IF edge # None
       THEN /\ edges' = Augment(edges, edge, network_flow.v)
            /\ edge' = Backtrack(edge)
            /\ UNCHANGED <<pc, flow, max_flow>>
       ELSE /\ flow' = network_flow.v
            /\ max_flow' = max_flow + network_flow.v
            /\ pc' = "ek_while"
            /\ UNCHANGED <<edges, edge>>
  /\ UNCHANGED <<graphVars, bfs_queue, visited, previous, network_flow, raised,
                 results, bfs_calls, flows0, path_lens, flows_bfs, fresh, resolve>>

\* mutation: the loop also ends on a bottleneck of 1
EkReturnEarly ==
  /\ pc = "ek_while"
  /\ ~(flow > 1)
  /\ pc' = "done"
  /\ results' = IF Len(results) = 0 THEN <<max_flow>> ELSE <<results[1], max_flow>>
  /\ UNCHANGED <<graphVars, edges, bfsVars, max_flow, flow, raised, bfs_calls,
                 flows0, path_lens, flows_bfs, fresh, resolve>>

\* Graph.edmonds_karp, lines 171 and 177: flow is 0, return max_flow
EkReturn ==
  /\ pc = "ek_while"
  /\ ~(flow > 0)
  /\ pc' = "done"
  /\ results' = IF Len(results) = 0 THEN <<max_flow>> ELSE <<results[1], max_flow>>
  /\ UNCHANGED <<graphVars, edges, bfsVars, max_flow, flow, raised, bfs_calls,
                 flows0, path_lens, flows_bfs, fresh, resolve>>

\* A fresh, unsolved copy of the network: the same Graph and add_edge calls
\* made again, so every Edge has flow 0 (Edge.__init__, line 216); no call is
\* running, so no local of bfs or edmonds_karp exists
FreshCopy ==
  /\ pc = "done"
  /\ ~fresh
  /\ edges' = [i \in 1..Len(edges) |-> [edges[i] EXCEPT !.flow = 0]]
  /\ fresh' = TRUE
  /\ resolve' = FALSE
  /\ pc' = "built"
  /\ results' = <<results[1]>>
  /\ bfs_queue' = <<>>
  /\ visited' = <<>>
  /\ previous' = <<>>
  /\ network_flow' = Inf
  /\ edge' = None
  /\ max_flow' = 0
  /\ flow' = 0
  /\ bfs_calls' = 0
  /\ flows0' = <<>>
  /\ path_lens' = <<>>
  /\ flows_bfs' = <<>>
  /\ UNCHANGED <<graphVars, raised>>

Init ==
  /\ pc = "start"
  /\ num_nodes = 0
  /\ source = 0
  /\ sink = 0
  /\ graph = <<>>
  /\ edges = <<>>
  /\ bfs_queue = <<>>
  /\ visited = <<>>
  /\ previous = <<>>
  /\ network_flow = Inf
  /\ edge = None
  /\ max_flow = 0
  /\ flow = 0
  /\ raised = ""
  /\ results = <<>>
  /\ bfs_calls = 0
  /\ flows0 = <<>>
  /\ path_lens = <<>>
  /\ flows_bfs = <<>>
  /\ fresh = FALSE
  /\ resolve = FALSE

\* ---- the caller, with arguments the interface allows ----
Construct ==
  \E n \in 1..MaxNodes : \E s, t \in 1..n : s # t /\ GraphInit(n, s, t)

InsertUpTo(maxEdges) ==
  /\ Len(results) = 0
  /\ ~fresh
  /\ num_nodes <= MaxNodes
  /\ Len(edges) < 2 * maxEdges
  /\ \E f, t \in 1..num_nodes : \E c \in 0..MaxCap : AddEdge(f, t, c)

Insert == InsertUpTo(MaxEdges)

Solve == EdmondsKarp

\* the steps of a running edmonds_karp()
Step ==
  \/ BfsEnter
  \/ BfsWhile
  \/ BfsCheck
  \/ BfsMin
  \/ BfsUpdate
  \/ EkReturn

\* ---- the caller building a network whose shortest augmenting path blocks
\* the others, so that a later path has to run over a residual edge ----
CrossEdges ==
  << <<1, 2>>, <<1, 4>>, <<2, 3>>, <<2, 5>>, <<4, 3>>, <<3, 6>>, <<5, 6>> >>
CrossNodes ==
  LET named == {CrossEdges[k][1] : k \in 1..Len(CrossEdges)}
                 \cup {CrossEdges[k][2] : k \in 1..Len(CrossEdges)}
  IN CHOOSE n \in named : \A m \in named : m <= n

ConstructCross == GraphInit(CrossNodes, 1, CrossNodes)

InsertCross ==
  /\ Len(results) = 0
  /\ ~fresh
  /\ num_nodes = CrossNodes
  /\ Len(edges) < 2 * Len(CrossEdges)
  /\ LET e == CrossEdges[(Len(edges) \div 2) + 1]
     IN \E c \in 1..MaxCap : AddEdge(e[1], e[2], c)

Copy == FreshCopy

Next ==
  \/ Construct
  \/ Insert
  \/ ConstructCross
  \/ InsertCross
  \/ Solve
  \/ Copy
  \/ Step

Spec == Init /\ [][Next]_vars

\* ---- the same caller without copies; a call that has begun keeps running
\* (the code is synchronous), which is the weak fairness of Step ----
InsertLive == InsertUpTo(MaxLiveEdges)

NextLive ==
  \/ Construct
  \/ InsertLive
  \/ ConstructCross
  \/ InsertCross
  \/ Solve
  \/ Step

SpecLive == Init /\ [][NextLive]_vars /\ WF_vars(Step)

\* ---- the caller, with arbitrary integer arguments ----
ConstructArgs ==
  \E n \in -1..MaxArgNodes : \E s, t \in 0..(MaxArgNodes + 1) : GraphInit(n, s, t)

InsertArgs ==
  /\ Len(results) = 0
  /\ Len(edges) < 2 * MaxArgEdges
  /\ \E f, t \in 0..(MaxArgNodes + 1) : \E c \in -1..MaxArgCap : AddEdge(f, t, c)

NextArgs ==
  \/ ConstructArgs
  \/ InsertArgs
  \/ Solve
  \/ Step

SpecArgs == Init /\ [][NextArgs]_vars

\* ======================= properties =======================

Nodes == 0..(num_nodes - 1)
EdgeIds == 1..Len(edges)
\* add_edge creates the forward edge first: forward edges have odd references
Forward == {i \in EdgeIds : i % 2 = 1}
Residuals == {i \in EdgeIds : i % 2 = 0}
Searching == pc \in {"ek_while", "bfs_while", "bfs_check", "bfs_min", "bfs_update"}

RECURSIVE SumCapacity(_)
SumCapacity(S) ==
  IF S = {} THEN 0
  ELSE LET i == CHOOSE x \in S : TRUE
       IN edges[i].capacity + SumCapacity(S \ {i})

RECURSIVE SumFlow(_)
SumFlow(S) ==
  IF S = {} THEN 0
  ELSE LET i == CHOOSE x \in S : TRUE
       IN edges[i].flow + SumFlow(S \ {i})

\* reference: capacity of the forward edges leaving a node set
CutCapacity(S) ==
  SumCapacity({i \in Forward : edges[i].from_node \in S /\ edges[i].to_node \notin S})

\* reference: the capacity of a minimum source-sink cut
MinCut ==
  LET cuts == {S \in SUBSET Nodes : source \in S /\ sink \notin S}
  IN CHOOSE c \in {CutCapacity(S) : S \in cuts} :
       \A S \in cuts : c <= CutCapacity(S)

\* C1: the value edmonds_karp() returns on a freshly built network is the
\* maximum flow, i.e. the capacity of a minimum source-sink cut
C1_MaxFlowIsMinCut ==
  (pc = "done" /\ ~resolve) => (max_flow = MinCut /\ results[Len(results)] = MinCut)

\* a solve of the blocking network that reached the maximum only by
\* cancelling, over a residual edge, flow pushed by its first augmentation
C1_Witness ==
  /\ pc = "done"
  /\ ~resolve
  /\ num_nodes = CrossNodes
  /\ Len(edges) = 2 * Len(CrossEdges)
  /\ bfs_calls = 3
  /\ max_flow = 2
  /\ \E i \in Forward : edges[i].capacity > 0 /\ edges[i].flow = 0
       /\ edges[i].from_node # source /\ edges[i].to_node # sink
       /\ \A j \in Forward \ {i} : edges[j].flow = edges[j].capacity

InFlow(v) == SumFlow({i \in Forward : edges[i].to_node = v})
OutFlow(v) == SumFlow({i \in Forward : edges[i].from_node = v})

\* C3: after edmonds_karp() returns, flow over forward edges into every node
\* other than source and sink equals flow over forward edges out of it
C3_FlowConservation ==
  (pc = "done") => \A v \in Nodes \ {source, sink} : InFlow(v) = OutFlow(v)

\* a solved network that routes flow through an intermediate node
C3_Witness ==
  /\ pc = "done"
  /\ \E v \in Nodes \ {source, sink} : InFlow(v) > 0 /\ InFlow(v) = OutFlow(v)

\* C4: at all times a forward edge has 0 <= flow <= capacity, a residual edge
\* has flow <= 0, and remaining_capacity() >= 0 for every edge
C4_FlowWithinCapacity ==
  /\ \A i \in Forward : 0 <= edges[i].flow /\ edges[i].flow <= edges[i].capacity
  /\ \A i \in Residuals : edges[i].capacity = 0 /\ edges[i].flow <= 0
  /\ \A i \in EdgeIds : remaining_capacity(edges[i]) >= 0

\* in the middle of an update walk: one path edge saturated, its residual
\* negative, another path edge not yet updated
C4_Witness ==
  /\ pc = "bfs_update"
  /\ edge # None
  /\ \E i \in Forward : edges[i].flow = edges[i].capacity /\ edges[i].flow > 0
  /\ \E i \in Residuals : edges[i].flow < 0

\* C5: at all times e.flow == -e.residual.flow for every edge e
C5_ResidualSymmetry ==
  \A i \in EdgeIds : edges[i].flow = -edges[edges[i].residual].flow

\* in the middle of an update walk whose next path edge is a residual edge
\* that carries returned flow
C5_Witness ==
  /\ pc = "bfs_update"
  /\ edge \in Residuals
  /\ edges[edge].flow < 0
  /\ \E i \in Forward : edges[i].flow > 0

Flows == [i \in EdgeIds |-> edges[i].flow]

\* C6: edmonds_karp() called again on a solved, unmodified network returns 0
\* and changes no flow; on a fresh copy of the network it returns the value
\* the first call returned
C6_Idempotent ==
  /\ resolve => Flows = flows0
  /\ (resolve /\ pc = "done") => (max_flow = 0 /\ results[Len(results)] = 0)
  /\ (fresh /\ ~resolve /\ pc = "done") => results[Len(results)] = results[1]

\* a network with positive maximum flow was solved, copied afresh, the copy
\* solved, and the solved copy solved again
C6_Witness ==
  /\ fresh
  /\ resolve
  /\ pc = "done"
  /\ results = <<2, 0>>
  /\ \E i \in Forward : edges[i].flow > 0

SourceCapacity == SumCapacity({i \in Forward : edges[i].from_node = source})
SinkCapacity == SumCapacity({i \in Forward : edges[i].to_node = sink})

\* C9: the running total, and so the value returned, never exceeds the summed
\* capacity of the forward edges leaving the source nor of those entering the
\* sink
C9_FlowBoundedByEndpoints ==
  (Searching \/ pc = "done") =>
     /\ max_flow <= SourceCapacity
     /\ max_flow <= SinkCapacity
     /\ \A k \in 1..Len(results) : results[k] <= SourceCapacity /\ results[k] <= SinkCapacity

\* a returned value that meets the bound at the sink while the source could
\* send more
C9_Witness ==
  /\ pc = "done"
  /\ max_flow > 0
  /\ max_flow = SinkCapacity
  /\ max_flow < SourceCapacity

\* reference: nodes reachable from the source over forward edges of positive
\* capacity
RECURSIVE ReachFrom(_)
ReachFrom(S) ==
  LET T == S \cup {edges[i].to_node : i \in {j \in Forward :
                      edges[j].capacity > 0 /\ edges[j].from_node \in S}}
  IN IF T = S THEN S ELSE ReachFrom(T)

SinkConnected == sink \in ReachFrom({source})

\* C10: with no path of positive-capacity edges from source to sink in the
\* freshly built network, edmonds_karp() returns 0 after exactly one bfs()
\* and leaves every flow at 0
C10_DisconnectedSink ==
  (pc = "done" /\ ~resolve /\ ~SinkConnected) =>
     /\ max_flow = 0
     /\ results[Len(results)] = 0
     /\ bfs_calls = 1
     /\ \A i \in EdgeIds : edges[i].flow = 0

\* a solved network with positive capacity leaving the source, whose bfs()
\* visited other nodes, but with no path to the sink
C10_Witness ==
  /\ pc = "done"
  /\ ~resolve
  /\ ~SinkConnected
  /\ SourceCapacity > 0
  /\ \E n \in 1..Len(visited) : visited[n] /\ n # source + 1
  /\ bfs_calls = 1

\* C2: a call of edmonds_karp() on a valid network terminates: from every
\* position inside the call (the solver loop, the bfs queue loop and both
\* backward walks) the call eventually returns, and once it has returned no
\* step of it remains
C2_Terminates ==
  /\ Searching ~> (pc = "done")
  /\ [](pc = "done" => ~ENABLED Step)

\* a call that returned after two augmentations
C2_Witness ==
  /\ pc = "done"
  /\ ~resolve
  /\ bfs_calls = 3
  /\ max_flow > 0

ValidGraph ==
  /\ num_nodes > 0
  /\ source \in Nodes
  /\ sink \in Nodes
  /\ source # sink

\* C7: Graph(num_nodes, source, sink) is rejected when num_nodes <= 0, when
\* source or sink is outside 1..num_nodes or when source equals sink: no
\* Graph object exists for such arguments
C7_ConstructionRejectsInvalid ==
  (pc # "start") => ValidGraph

StoredEdges ==
  {i \in EdgeIds : \E n \in 1..Len(graph) : \E k \in 1..Len(graph[n]) : graph[n][k] = i}

\* C8: add_edge(from_node, to_node, capacity) is rejected when capacity < 0
\* or an endpoint is outside 1..num_nodes: a validly constructed Graph holds
\* no edge with such a capacity or endpoint, and solving it raises nothing
C8_AddEdgeRejectsInvalid ==
  ValidGraph =>
    /\ \A i \in StoredEdges : /\ edges[i].capacity >= 0
                              /\ edges[i].from_node \in Nodes
                              /\ edges[i].to_node \in Nodes
    /\ pc # "failed"

\* ---- the demo driver (__main__): two fixed networks, edges in listed order
Demo1Edges ==
  << <<1, 2, 5>>, <<1, 3, 10>>, <<2, 4, 5>>, <<2, 5, 20>>, <<3, 5, 5>>,
     <<3, 6, 20>>, <<4, 7, 10>>, <<4, 8, 5>>, <<5, 7, 100>>, <<6, 9, 2>>,
     <<8, 7, 100>>, <<7, 10, 5>>, <<9, 10, 10>> >>

Demo2Edges ==
  << <<1, 2, 5>>, <<1, 3, 10>>, <<1, 4, 5>>, <<3, 2, 15>>, <<3, 6, 20>>,
     <<2, 5, 10>>, <<6, 4, 5>>, <<4, 7, 10>>, <<5, 6, 25>>, <<5, 8, 10>>,
     <<6, 9, 30>>, <<7, 9, 5>>, <<7, 10, 10>>, <<9, 5, 15>>, <<9, 10, 5>>,
     <<8, 11, 5>>, <<9, 11, 15>>, <<10, 11, 10>> >>

\* the node count the driver passes: the largest node an edge names
DemoNodes(D) ==
  LET named == {D[k][1] : k \in 1..Len(D)} \cup {D[k][2] : k \in 1..Len(D)}
  IN CHOOSE n \in named : \A m \in named : m <= n

Demos == {Demo1Edges, Demo2Edges}

ConstructDemo == \E D \in Demos : GraphInit(DemoNodes(D), 1, DemoNodes(D))

InsertDemo ==
  /\ Len(results) = 0
  /\ \E D \in Demos :
       /\ num_nodes = DemoNodes(D)
       /\ Len(edges) < 2 * Len(D)
       /\ LET e == D[(Len(edges) \div 2) + 1]
          IN AddEdge(e[1], e[2], e[3])

SolveDemo ==
  /\ \E D \in Demos : num_nodes = DemoNodes(D) /\ Len(edges) = 2 * Len(D)
  /\ EdmondsKarp

NextDemo ==
  \/ ConstructDemo
  \/ InsertDemo
  \/ SolveDemo
  \/ Step

SpecDemo == Init /\ [][NextDemo]_vars

\* C11: on the demo driver's networks edmonds_karp() returns 7 for the
\* 10-node, 13-edge network and 20 for the 11-node, 18-edge network
C11_DemoValues ==
  (pc = "done" /\ ~resolve) =>
     /\ (num_nodes = DemoNodes(Demo1Edges)) => (max_flow = 7 /\ results = <<7>>)
     /\ (num_nodes = DemoNodes(Demo2Edges)) => (max_flow = 20 /\ results = <<20>>)

\* the first call on the completely built second network has returned
C11_Witness ==
  /\ pc = "done"
  /\ ~resolve
  /\ num_nodes = 11
  /\ Len(edges) = 36
  /\ source = 0
  /\ sink = 10
  /\ bfs_calls > 2

\* the first call on the completely built first network has returned
C11_WitnessFirst ==
  /\ pc = "done"
  /\ ~resolve
  /\ num_nodes = 10
  /\ Len(edges) = 26
  /\ bfs_calls > 2

\* ---- the caller building a 2-node network of parallel source->sink edges
ConstructParallel == \E s, t \in 1..2 : s # t /\ GraphInit(2, s, t)

InsertParallel ==
  /\ Len(results) = 0
  /\ num_nodes = 2
  /\ Len(edges) < 2 * MaxParallel
  /\ \E c \in 0..MaxParallelCap : AddEdge(source + 1, sink + 1, c)

NextParallel ==
  \/ ConstructParallel
  \/ InsertParallel
  \/ Solve
  \/ Step

SpecParallel == Init /\ [][NextParallel]_vars

\* C12: on a 2-node network of k >= 1 parallel source->sink edges the value
\* returned is the sum of their capacities and each edge ends with flow equal
\* to its own capacity; the edges stay separate Edge objects
C12_ParallelEdgesAdd ==
  /\ Len(graph) > 0 =>
       /\ Len(graph[source + 1]) = Len(edges) \div 2
       /\ \A k \in 1..Len(graph[source + 1]) : graph[source + 1][k] = 2 * k - 1
  /\ (pc = "done" /\ Len(edges) > 0) =>
       /\ results[1] = SumCapacity(Forward)
       /\ \A i \in Forward : edges[i].flow = edges[i].capacity
       /\ (Len(edges) = 2) => results[1] = edges[1].capacity
       /\ (Len(edges) = 4 /\ edges[1].capacity = 3 /\ edges[3].capacity = 3)
             => results[1] = 6

\* two parallel edges of capacity 3 solved to 6
C12_Witness ==
  /\ pc = "done"
  /\ ~resolve
  /\ Len(edges) = 4
  /\ edges[1].capacity = 3
  /\ edges[3].capacity = 3
  /\ edges[1].flow = 3
  /\ edges[3].flow = 3
  /\ max_flow = 6
  /\ bfs_calls = 3

\* ---- the caller building a network with a short and a long way to the
\* sink, the long one entered by the edge added last at the source
DetourEdges == << <<1, 2>>, <<1, 3>>, <<3, 4>>, <<4, 5>>, <<2, 5>> >>
DetourNodes ==
  LET named == {DetourEdges[k][1] : k \in 1..Len(DetourEdges)}
                 \cup {DetourEdges[k][2] : k \in 1..Len(DetourEdges)}
  IN CHOOSE n \in named : \A m \in named : m <= n

ConstructDetour == GraphInit(DetourNodes, 1, DetourNodes)

InsertDetour ==
  /\ Len(results) = 0
  /\ num_nodes = DetourNodes
  /\ Len(edges) < 2 * Len(DetourEdges)
  /\ LET e == DetourEdges[(Len(edges) \div 2) + 1]
     IN \E c \in 1..MaxCap : AddEdge(e[1], e[2], c)

\* ---- the callers of all families, one solve per network, which may begin
\* before a family's last edge is added
NextPaths ==
  \/ Construct
  \/ Insert
  \/ ConstructCross
  \/ InsertCross
  \/ InsertParallel
  \/ ConstructDemo
  \/ InsertDemo
  \/ ConstructDetour
  \/ InsertDetour
  \/ Solve
  \/ Step

SpecPaths == Init /\ [][NextPaths]_vars

\* remaining capacity of an edge when the latest bfs() began
RemainingAtBfsStart(i) == edges[i].capacity - flows_bfs[i]

\* reference: the fewest edges of a path from the node set S to the sink over
\* stored edges that had remaining capacity when the latest bfs() began, given
\* that S is d edges from the source; -1 when there is no such path
RECURSIVE Distance(_, _, _)
Distance(S, seen, d) ==
  IF sink \in S THEN d
  ELSE LET T == {edges[i].to_node : i \in {j \in StoredEdges :
                     RemainingAtBfsStart(j) > 0 /\ edges[j].from_node \in S}} \ seen
       IN IF T = {} THEN -1 ELSE Distance(T, seen \cup T, d + 1)

ShortestAtBfsStart == Distance({source}, {source}, 0)

\* C13: whenever bfs() selects a path, the number of edges on the predecessor
\* chain from the sink back to the source equals the fewest edges of any source->sink path over edges that
\* had remaining capacity when that bfs() began
C13_SelectedPathIsShortest ==
  (pc \in {"bfs_min", "bfs_update", "ek_while"} /\ bfs_calls > 0
      /\ previous[Pos(ListLen(num_nodes), sink)] # None) =>
     /\ Len(SelectedPath) = ShortestAtBfsStart
     /\ path_lens[Len(path_lens)] = ShortestAtBfsStart
     /\ ShortestAtBfsStart > 0

\* a bfs() that returned after selecting a path over a residual edge although
\* longer paths without one existed
C13_Witness ==
  /\ pc = "ek_while"
  /\ flow > 0
  /\ Len(path_lens) >= 2
  /\ \E k \in 1..Len(SelectedPath) : SelectedPath[k] \in Residuals
  /\ Len(SelectedPath) = ShortestAtBfsStart

\* the latest bfs() has returned into the solver loop
BfsReturned == pc = "ek_while" /\ bfs_calls > 0

MinOf(S) == CHOOSE m \in S : \A x \in S : m <= x

\* C14: bfs() returns 0 exactly when the sink cannot be reached from the
\* source over edges that had remaining capacity when it began, and then no
\* flow has changed; otherwise it returns a positive value, the least
\* remaining capacity the path's edges had before the update, and after the
\* update some edge of the path has remaining capacity 0
C14_BfsReturnValue ==
  BfsReturned =>
    /\ (flow = 0) <=> (ShortestAtBfsStart = -1)
    /\ (flow = 0) => \A i \in EdgeIds : edges[i].flow = flows_bfs[i]
    /\ (flow # 0) =>
         /\ flow > 0
         /\ flow = MinOf({RemainingAtBfsStart(SelectedPath[k]) : k \in 1..Len(SelectedPath)})
         /\ \E k \in 1..Len(SelectedPath) : remaining_capacity(edges[SelectedPath[k]]) = 0

\* a bfs() that returned the bottleneck of a path whose edges had different
\* remaining capacities, one of which is now used up while another is not
C14_Witness ==
  /\ BfsReturned
  /\ flow > 0
  /\ Len(SelectedPath) >= 2
  /\ \E k \in 1..Len(SelectedPath) : RemainingAtBfsStart(SelectedPath[k]) > flow
  /\ \E k \in 1..Len(SelectedPath) : remaining_capacity(edges[SelectedPath[k]]) = 0
  /\ \E k \in 1..Len(SelectedPath) : remaining_capacity(edges[SelectedPath[k]]) > 0

\* a bfs() that returned 0 after earlier ones had found paths
C14_WitnessNoPath ==
  /\ BfsReturned
  /\ flow = 0
  /\ Len(path_lens) >= 2
  /\ ShortestAtBfsStart = -1

\* the part of an Edge that is not its flow
Shape(e) == [capacity |-> e.capacity, from_node |-> e.from_node,
             to_node |-> e.to_node, residual |-> e.residual]

\* the edges whose flow differs from what it was when the latest bfs() began
ChangedByBfs == {i \in EdgeIds : edges[i].flow # flows_bfs[i]}

PathAndResiduals ==
  {SelectedPath[k] : k \in 1..Len(SelectedPath)}
     \cup {edges[SelectedPath[k]].residual : k \in 1..Len(SelectedPath)}

\* C15: from the entry of edmonds_karp() to its return no step changes
\* num_nodes, source, sink, an adjacency list, or the capacity, from_node,
\* to_node or residual link of an edge, and no edge appears or disappears; and
\* when a bfs() has returned, the edges whose flow it changed are exactly the
\* edges of the selected path and their paired residuals
C15_SolvingMutatesOnlyFlow ==
  /\ [][(Searching \/ pc' = "ek_while") =>
          /\ graphVars' = graphVars
          /\ Len(edges') = Len(edges)
          /\ \A i \in EdgeIds : Shape(edges'[i]) = Shape(edges[i])]_vars
  /\ [](BfsReturned => ChangedByBfs = PathAndResiduals)

\* a bfs() that returned after augmenting a path of several edges while an
\* edge carrying flow from an earlier augmentation kept its flow
C15_Witness ==
  /\ BfsReturned
  /\ flow > 0
  /\ Len(SelectedPath) >= 2
  /\ Cardinality(ChangedByBfs) = 2 * Len(SelectedPath)
  /\ \E i \in EdgeIds \ ChangedByBfs : edges[i].flow > 0

\* a step of the caller between construction and solving: an add_edge call
AddEdgeStep == pc = "built" /\ pc' = "built" /\ ~fresh

\* the adjacency lists after appending d to the list of node f, then r to the
\* list of node t (0-based nodes)
AppendedPair(f, t, d, r) ==
  [[graph EXCEPT ![f + 1] = Append(@, d)] EXCEPT ![t + 1] = Append(@, r)]

\* C16: every valid add_edge(from, to, capacity) creates exactly two Edge
\* objects and appends the forward one (capacity, from-1 -> to-1, flow 0) to
\* the end of the adjacency list of from-1 and then the residual one
\* (capacity 0, to-1 -> from-1, flow 0) to the end of the list of to-1,
\* touching nothing else; every edge in adjacency list i has from_node = i,
\* every edge is in exactly one list position, and the residual of an edge's
\* residual is the edge itself, running the opposite way
C16_AddEdgeAppendsPair ==
  /\ [][AddEdgeStep =>
          LET d == Len(edges) + 1
              r == Len(edges) + 2
          IN /\ Len(edges') = Len(edges) + 2
             /\ \A i \in EdgeIds : edges'[i] = edges[i]
             /\ edges'[d].from_node \in Nodes
             /\ edges'[d].to_node \in Nodes
             /\ edges'[d].flow = 0
             /\ edges'[d].residual = r
             /\ edges'[r] = [capacity |-> 0, from_node |-> edges'[d].to_node,
                             to_node |-> edges'[d].from_node, flow |-> 0,
                             residual |-> d]
             /\ graph' = AppendedPair(edges'[d].from_node, edges'[d].to_node, d, r)
             /\ UNCHANGED <<num_nodes, source, sink>>]_vars
  /\ [](/\ \A n \in 1..Len(graph) : \A k \in 1..Len(graph[n]) :
              edges[graph[n][k]].from_node = n - 1
        /\ \A i \in EdgeIds :
              /\ Cardinality({nk \in (1..Len(graph)) \X (1..Len(edges)) :
                     nk[2] <= Len(graph[nk[1]]) /\ graph[nk[1]][nk[2]] = i}) = 1
              /\ edges[i].residual \in EdgeIds \ {i}
              /\ edges[edges[i].residual].residual = i
              /\ edges[edges[i].residual].from_node = edges[i].to_node
              /\ edges[edges[i].residual].to_node = edges[i].from_node)

\* a built network in which one adjacency list holds two forward edges to the
\* same node and another list holds their two residuals
C16_Witness ==
  /\ pc = "built"
  /\ \E i, j \in Forward :
        /\ i < j
        /\ edges[i].from_node = edges[j].from_node
        /\ edges[i].to_node = edges[j].to_node
        /\ edges[i].from_node # edges[i].to_node
        /\ graph[edges[i].from_node + 1] = <<i, j>>
        /\ graph[edges[i].to_node + 1] = <<i + 1, j + 1>>

\* a built network where a node's list holds a residual edge followed by
\* forward edges
C16_WitnessMixed ==
  /\ pc = "built"
  /\ \E n \in 1..Len(graph) :
        /\ Len(graph[n]) >= 3
        /\ graph[n][1] \in Residuals
        /\ graph[n][2] \in Forward

\* one of the two backward walks is running
Walking == pc \in {"bfs_min", "bfs_update"}

\* the nodes the predecessor chain passes, from the sink backward
ChainNodes == {sink} \cup {edges[SelectedPath[k]].from_node : k \in 1..Len(SelectedPath)}

\* C17: in every bfs() in which the sink received a predecessor edge, the
\* chain along previous[] from previous[sink] ends in the sink, links each
\* edge's from_node to the to_node of the next, passes no node twice and
\* reaches None only behind an edge that leaves the source; and both walks
\* move along that chain, edge by edge, and stop only at the source
C17_ChainConsistent ==
  /\ [](Walking =>
          LET path == SelectedPath
          IN /\ Len(path) >= 1
             /\ Len(path) <= Len(edges)
             /\ edges[path[1]].to_node = sink
             /\ \A k \in 1..(Len(path) - 1) :
                   edges[path[k]].from_node = edges[path[k + 1]].to_node
             /\ Cardinality(ChainNodes) = Len(path) + 1
             /\ edges[path[Len(path)]].from_node = source
             /\ \A k \in 1..(Len(path) - 1) : edges[path[k]].from_node # source
             /\ edge = None \/ \E k \in 1..Len(path) : path[k] = edge)
  /\ [][(Walking /\ pc' = pc /\ edge # None) =>
          IF edge' = None THEN edges[edge].from_node = source
          ELSE edges[edge].from_node = edges[edge'].to_node]_vars

\* the update walk standing on the last edge of a chain of five edges, one of
\* them a residual edge
C17_Witness ==
  /\ pc = "bfs_update"
  /\ Len(SelectedPath) = 5
  /\ edge = SelectedPath[5]
  /\ edges[edge].from_node = source
  /\ \E k \in 1..5 : SelectedPath[k] \in Residuals

\* the augmentations of the current edmonds_karp(): its bfs() calls that
\* returned a value > 0
Augmentations == Len(path_lens)

\* the add_edge calls made on the network
AddEdgeCalls == Len(edges) \div 2

\* every edge of the network runs from the source to the sink
OnlyParallel == \A i \in Forward : edges[i].from_node = source /\ edges[i].to_node = sink

\* C18: the augmentations of one edmonds_karp() number at most num_nodes
\* times the add_edge calls made, whatever the capacities; on a network of
\* parallel source->sink edges they number exactly the edges of positive
\* capacity, however large those capacities are
C18_AugmentationsBounded ==
  /\ Augmentations <= num_nodes * AddEdgeCalls
  /\ (pc = "done" /\ ~resolve /\ OnlyParallel) =>
        Augmentations = Cardinality({i \in Forward : edges[i].capacity > 0})

\* a call that returned after four augmentations on a network with capacities
\* above 1
C18_Witness ==
  /\ pc = "done"
  /\ ~resolve
  /\ Augmentations >= 4
  /\ \E i \in Forward : edges[i].capacity > 1 /\ edges[i].flow > 1

\* a call that returned after two augmentations of three units each
C18_WitnessParallel ==
  /\ pc = "done"
  /\ OnlyParallel
  /\ Augmentations = 2
  /\ max_flow = 6

\* C19: within one edmonds_karp() the paths of successive bfs() calls that
\* found one never get shorter
C19_PathsNeverShorten ==
  \A k \in 1..(Len(path_lens) - 1) : path_lens[k] <= path_lens[k + 1]

\* a call whose bfs() selected a path longer than the one before
C19_Witness ==
  /\ pc \in {"bfs_min", "bfs_update", "ek_while"}
  /\ Len(path_lens) >= 2
  /\ path_lens[Len(path_lens) - 1] < path_lens[Len(path_lens)]
  /\ path_lens[Len(path_lens)] = Len(SelectedPath)

\* C20: add_edge is all-or-nothing: a call that raises leaves every adjacency
\* list as it was, so no state holds a stored forward edge whose residual is
\* stored nowhere, and no edge is stored in the list of a node other than its
\* from_node
C20_AddEdgeAllOrNothing ==
  /\ \A i \in StoredEdges \cap Forward : edges[i].residual \in StoredEdges
  /\ \A n \in 1..Len(graph) : \A k \in 1..Len(graph[n]) :
        edges[graph[n][k]].from_node = n - 1
  /\ (pc = "built" /\ raised = "IndexError") => Cardinality(StoredEdges) % 2 = 0

====
